---------------------------- MODULE Spec2Model ----------------------------
(***************************************************************************)
(* A model of the search layer of praekelt/service-directory:              *)
(*   - FuzzyElasticsearchSearchQuery.build_query_fragment                  *)
(*   - FuzzyElasticsearchSearchBackend.build_search_kwargs                 *)
(*   - SearchSerializer.format_results / perform_search                    *)
(*   - the Search endpoint (Search.get)                                    *)
(*                                                                         *)
(* Text is modelled as a sequence of one-character strings, so that        *)
(* splitting, escaping, prefix and suffix tests are computed as the code   *)
(* computes them.  A field name is carried as one symbol of the text.      *)
(***************************************************************************)
EXTENDS Integers, Sequences, FiniteSets, TLC

VARIABLES
    field, filter_type, value, query_frag,     \* one call of build_query_fragment
    request, env, calls,                       \* calls of build_search_kwargs
    sqs, organisations, formatted,             \* one call of format_results
    query_params, response, searches, ga_log,  \* one request to the Search endpoint
    services                                   \* what the request found: engine, analytics

fragVars == <<field, filter_type, value, query_frag>>
kwVars == <<request, env, calls>>
fmtVars == <<sqs, organisations, formatted>>
apiVars == <<query_params, response, searches, ga_log, services>>
vars == <<fragVars, kwVars, fmtVars, apiVars>>

\* The value of a result variable before the call has returned.
NotCalled == [called |-> FALSE]

(***************************************************************************)
(* Bounds of the model.                                                    *)
(***************************************************************************)
MaxLen == 3       \* longest query string handed to build_query_fragment
MaxList == 2      \* longest list handed to the 'in' and 'range' filters
MaxCalls == 2     \* calls of build_search_kwargs on one request object
MaxHits == 2      \* longest list of search hits handed to format_results
MaxLocLen == 3    \* longest 'location' parameter sent to the Search endpoint
MaxExtra == 18    \* organisations a large index stores beyond the three of Index

(***************************************************************************)
(* Text helpers: Python's str.join, str.split(sep), str.split(),           *)
(* str.startswith, str.endswith.                                           *)
(***************************************************************************)
RECURSIVE Join(_, _)
\* sep.join(parts)
Join(parts, sep) ==
    IF Len(parts) = 0 THEN <<>>
    ELSE IF Len(parts) = 1 THEN parts[1]
    ELSE parts[1] \o sep \o Join(Tail(parts), sep)

RECURSIVE SplitOn(_, _)
\* s.split(c) for a one-character separator: every occurrence of c cuts,
\* so adjacent, leading and trailing separators yield empty pieces.
SplitOn(s, c) ==
    IF \A i \in 1..Len(s) : s[i] # c THEN <<s>>
    ELSE LET k == CHOOSE i \in 1..Len(s) :
                      s[i] = c /\ \A j \in 1..(i - 1) : s[j] # c
         IN  <<SubSeq(s, 1, k - 1)>> \o SplitOn(SubSeq(s, k + 1, Len(s)), c)

Whitespace == {" ", "\t"}

\* s.split(): cut at runs of whitespace, no empty pieces.
SplitWs(s) ==
    LET IsStart(i) == s[i] \notin Whitespace /\ (i = 1 \/ s[i - 1] \in Whitespace)
        EndOf(i) == CHOOSE e \in i..Len(s) :
                        /\ \A j \in i..e : s[j] \notin Whitespace
                        /\ (e = Len(s) \/ s[e + 1] \in Whitespace)
        RECURSIVE From(_)
        From(i) == IF i > Len(s) THEN <<>>
                   ELSE IF IsStart(i) THEN <<SubSeq(s, i, EndOf(i))>> \o From(EndOf(i) + 1)
                   ELSE From(i + 1)
    IN  From(1)

startswith(s, c) == Len(s) > 0 /\ s[1] = c
endswith(s, c) == Len(s) > 0 /\ s[Len(s)] = c

\* [f(x) for x in xs]
Map(f(_), xs) == [i \in 1..Len(xs) |-> f(xs[i])]

\* the elements of a sequence
Range(seq) == {seq[i] : i \in 1..Len(seq)}


(***************************************************************************)
(* haystack's input types, as build_query_fragment uses them               *)
(* (value.input_type_name, value.post_process, value.prepare(query)).      *)
(* A value is [cls, str, data]: cls is "str" or "list" for a plain Python  *)
(* value and the class name for an InputType; str tells whether data is    *)
(* text (TRUE) or a list of texts (FALSE).                                 *)
(***************************************************************************)
Chars == {"O", "R", " ", "\t", "(", ")"}

\* Characters of the alphabet that the backend's RESERVED_CHARACTERS holds.
RESERVED_CHARACTERS == {"(", ")"}
\* Words of the alphabet that the backend's RESERVED_WORDS holds (AND, NOT, OR, TO).
RESERVED_WORDS == {<<"O", "R">>}

lower(word) == [i \in 1..Len(word) |->
                   IF word[i] = "O" THEN "o" ELSE IF word[i] = "R" THEN "r" ELSE word[i]]

RECURSIVE escape(_)
\* word.replace(char, '\\%s' % char) for every reserved character
escape(word) ==
    IF Len(word) = 0 THEN <<>>
    ELSE (IF word[1] \in RESERVED_CHARACTERS THEN <<"\\", word[1]>> ELSE <<word[1]>>)
         \o escape(Tail(word))

\* BaseSearchQuery.clean: split on whitespace, lower-case reserved words,
\* escape reserved characters, join with one space.
clean(query_fragment) ==
    LET cleaned(word) == escape(IF word \in RESERVED_WORDS THEN lower(word) ELSE word)
    IN  Join(Map(cleaned, SplitWs(query_fragment)), <<" ">>)

NonEmpty(parts) == SelectSeq(parts, LAMBDA p : Len(p) > 0)

input_type_name(v) ==
    CASE v.cls = "Clean" -> "clean"
      [] v.cls = "Exact" -> "exact"
      [] v.cls = "Raw" -> "raw"
      [] v.cls = "PythonData" -> "python_data"
      [] v.cls = "Not" -> "not"
      [] v.cls = "AutoQuery" -> "auto_query"

post_process(v) == v.cls \notin {"Raw", "AutoQuery"}

\* value.prepare(query_obj); the result keeps the str tag of the data.
prepare(v) ==
    CASE v.cls = "Clean" -> [str |-> TRUE, data |-> clean(v.data)]
      [] v.cls = "Exact" -> [str |-> TRUE, data |-> <<"\"">> \o v.data \o <<"\"">>]
      [] v.cls = "Not" ->
            [str |-> TRUE, data |-> <<"N", "O", "T", " ", "(">> \o clean(v.data) \o <<")">>]
      [] v.cls = "AutoQuery" ->
            \* no quote and no '-' in the alphabet: every token is a Clean token
            [str |-> TRUE,
             data |-> Join(Map(clean, NonEmpty(SplitOn(v.data, " "))), <<" ">>)]
      [] v.cls \in {"Raw", "PythonData"} -> [str |-> v.str, data |-> v.data]

(***************************************************************************)
(* FuzzyElasticsearchSearchQuery.build_query_fragment                      *)
(***************************************************************************)
TermFilters == {"contains", "startswith", "fuzzy"}
TemplateFilters == {"contains", "startswith", "exact", "gt", "gte", "lt", "lte", "fuzzy"}

\* filter_types[filter_type] % v
filter_types(ft, v) ==
    CASE ft = "contains" -> v
      [] ft = "startswith" -> v \o <<"*">>
      [] ft = "exact" -> v
      [] ft = "gt" -> <<"{">> \o v \o <<" ", "T", "O", " ", "*", "}">>
      [] ft = "gte" -> <<"[">> \o v \o <<" ", "T", "O", " ", "*", "]">>
      [] ft = "lt" -> <<"{", "*", " ", "T", "O", " ">> \o v \o <<"}">>
      [] ft = "lte" -> <<"[", "*", " ", "T", "O", " ">> \o v \o <<"]">>
      [] ft = "fuzzy" -> v \o <<"~">>

\* Iterating a prepared value: the items of a list, the characters of a text.
Items(pv) == IF pv.str THEN [i \in 1..Len(pv.data) |-> <<pv.data[i]>>] ELSE pv.data

quoted(v) == <<"\"">> \o v \o <<"\"">>

\* if value has no input_type_name: text is wrapped in Clean, anything else in PythonData
as_input_type(v) ==
    IF v.cls = "str" THEN [v EXCEPT !.cls = "Clean"]
    ELSE IF v.cls = "list" THEN [v EXCEPT !.cls = "PythonData"]
    ELSE v

\* contains / startswith / fuzzy on a value that is not Exact: one term per
\* piece of prepared_value.split(' '), joined with AND when there are several.
\* (The inputs give these filters a text, so prepared_value is always text.)
term_fragment(ft, pv) ==
    LET terms == Map(LAMBDA t : filter_types(ft, t), SplitOn(pv.data, " "))
    IN  IF Len(terms) = 1 THEN terms[1]
        ELSE <<"(">> \o Join(terms, <<" ", "A", "N", "D", " ">>) \o <<")">>

\* A plausible slip: the options joined with AND.
in_fragment_and(pv) ==
    <<"(">> \o Join(Map(quoted, Items(pv)), <<" ", "A", "N", "D", " ">>) \o <<")">>

\* 'in': every option quoted, joined with OR, parenthesized.
in_fragment(pv) ==
    <<"(">> \o Join(Map(quoted, Items(pv)), <<" ", "O", "R", " ">>) \o <<")">>

\* A plausible slip: the bounds taken in the wrong order.
range_fragment_swapped(pv) ==
    <<"[">> \o quoted(Items(pv)[2]) \o <<" ", "T", "O", " ">>
            \o quoted(Items(pv)[1]) \o <<"]">>

\* 'range': ["start" TO "end"] of prepared_value[0] and prepared_value[1].
range_fragment(pv) ==
    <<"[">> \o quoted(Items(pv)[1]) \o <<" ", "T", "O", " ">>
            \o quoted(Items(pv)[2]) \o <<"]">>

\* The fragment before post-processing: [raised, frag].
raw_fragment(ft, val) ==
    LET prepared_value == prepare(val)
        Exacted == [str |-> TRUE, data |-> quoted(prepared_value.data)]
        Ok(f) == [raised |-> "", frag |-> f]
    IN  IF ~post_process(val) THEN Ok(prepared_value.data)
        ELSE IF ft \in TermFilters THEN
            IF input_type_name(val) = "exact" THEN Ok(prepared_value.data)
            ELSE Ok(term_fragment(ft, prepared_value))
        ELSE IF ft = "in" THEN Ok(in_fragment(prepared_value))
        ELSE IF ft = "range" THEN
            IF Len(prepared_value.data) < 2 THEN [raised |-> "IndexError", frag |-> <<>>]
            ELSE Ok(range_fragment(prepared_value))
        ELSE IF ft = "exact" THEN
            IF input_type_name(val) = "exact" THEN Ok(prepared_value.data)
            ELSE Ok(filter_types(ft, Exacted.data))
        ELSE
            IF input_type_name(val) # "exact" THEN Ok(filter_types(ft, Exacted.data))
            ELSE Ok(filter_types(ft, prepared_value.data))

\* if len(query_frag) and not isinstance(value, Raw): wrap unless it starts
\* with '(' or ends with ')'
post_processed(val, frag) ==
    IF Len(frag) > 0 /\ val.cls # "Raw"
    THEN IF ~startswith(frag, "(") /\ ~endswith(frag, ")")
         THEN <<"(">> \o frag \o <<")">>
         ELSE frag
    ELSE frag

\* 'content' means no field; any other field is prefixed as "<field>:".
index_fieldname(f) == IF f = "content" THEN <<>> ELSE <<f, ":">>

\* The call: [called, raised, ret].
build_query_fragment(f, ft, v) ==
    LET val == as_input_type(v)
        r == raw_fragment(ft, val)
    IN  IF r.raised # "" THEN [called |-> TRUE, raised |-> r.raised, ret |-> <<>>]
        ELSE [called |-> TRUE, raised |-> "",
              ret |-> index_fieldname(f) \o post_processed(val, r.frag)]

(***************************************************************************)
(* The inputs of build_query_fragment.  A template or term filter takes a  *)
(* text; 'in' and 'range' take a list or a text.                           *)
(***************************************************************************)
Texts == UNION {[1..n -> Chars] : n \in 0..MaxLen}
Elems == {<<"O">>, <<"R">>, <<"(", ")">>}
Lists == UNION {[1..n -> Elems] : n \in 0..MaxList}
Fields == {"content", "name"}
FilterTypes == TemplateFilters \cup {"in", "range"}
TextClasses == {"str", "Clean", "Exact", "Raw", "PythonData", "Not", "AutoQuery"}
TextValues == {[cls |-> c, str |-> TRUE, data |-> t] : c \in TextClasses, t \in Texts}
ListValues == {[cls |-> "list", str |-> FALSE, data |-> l] : l \in Lists}

FragIdle ==
    /\ field = "" /\ filter_type = "" /\ value = <<>> /\ query_frag = NotCalled

KwIdle == request = <<>> /\ env = <<>> /\ calls = <<>>

FmtIdle == sqs = <<>> /\ organisations = <<>> /\ formatted = NotCalled

ApiIdle ==
    /\ query_params = <<>> /\ response = NotCalled /\ searches = <<>> /\ ga_log = <<>>
    /\ services = <<>>

FragInit ==
    /\ field \in Fields
    /\ filter_type \in FilterTypes
    /\ value \in TextValues \cup ListValues
    /\ value.cls = "list" => filter_type \in {"in", "range"}
    /\ query_frag = NotCalled
    /\ KwIdle /\ FmtIdle /\ ApiIdle

BuildQueryFragment ==
    /\ ~query_frag.called
    /\ query_frag' = build_query_fragment(field, filter_type, value)
    /\ UNCHANGED <<field, filter_type, value, kwVars, fmtVars, apiVars>>

FragNext == BuildQueryFragment

FragSpec == FragInit /\ [][FragNext]_vars

(***************************************************************************)
(* FuzzyElasticsearchSearchBackend.build_search_kwargs                     *)
(*                                                                         *)
(* Python's None is the empty tuple and a given value x is <<x>>.  A dict  *)
(* is a function on its keys.  A Python set is a set, and the order in     *)
(* which a loop iterates over it is an input of the call.                  *)
(***************************************************************************)
None == <<>>
Some(x) == <<x>>
EmptyDict == [k \in {} |-> None]

FUZZY_MAX_EXPANSIONS == 50
FUZZY_MIN_SIM == "0.5"
DEFAULT_OPERATOR == "AND"
DJANGO_CT == "django_ct"
content_field == "text"
FACET_SIZE == 100

DistanceWarning == "In order to sort by distance, you must call the '.distance(...)' method."
VersionWarning == "The 'fuzzy' operator should now be included in the official django-haystack release."

\* haystack.utils.get_model_ct: "<app_label>.<model_name>"
get_model_ct(model) ==
    CASE model = "Organisation" -> "api.organisation"
      [] model = "Keyword" -> "api.keyword"
      [] model = "Category" -> "api.category"

\* The order of Python's sorted() on the type codes.
CtRank(ct) ==
    CASE ct = "api.category" -> 1
      [] ct = "api.keyword" -> 2
      [] ct = "api.organisation" -> 3

sorted(cts) == SortSeq(cts, LAMBDA a, b : CtRank(a) < CtRank(b))

\* the query string '*:*' that matches everything
MatchAll == <<"*", ":", "*">>

\* the base clause: match_all for '*:*', a query_string clause otherwise
base_query(query_string) ==
    IF query_string = MatchAll THEN [match_all |-> EmptyDict]
    ELSE [query_string |->
             [default_field |-> content_field,
              default_operator |-> DEFAULT_OPERATOR,
              query |-> query_string,
              analyze_wildcard |-> TRUE,
              auto_generate_phrase_queries |-> TRUE,
              fuzzy_min_sim |-> FUZZY_MIN_SIM,
              fuzzy_max_expansions |-> FUZZY_MAX_EXPANSIONS]]

\* point.get_coords() is (x, y) = (lng, lat)
get_coords(point) == <<point.lng, point.lat>>

\* one entry of sort_by
sort_kwargs(entry, distance_point) ==
    IF entry[1] = "distance" /\ distance_point # None
    THEN [_geo_distance |->
             (distance_point[1].field :> get_coords(distance_point[1].point))
             @@ [order |-> entry[2], unit |-> "km"]]
    ELSE entry[1] :> [order |-> entry[2]]

\* A plausible slip: the fallback is silent.
sort_warnings_silent(sort_by, distance_point) == <<>>

\* warnings.warn(...) calls of the sort loop, in order
sort_warnings(sort_by, distance_point) ==
    IF sort_by = None THEN <<>>
    ELSE LET hits == SelectSeq(sort_by[1],
                         LAMBDA e : e[1] = "distance" /\ distance_point = None)
         IN  [i \in 1..Len(hits) |-> DistanceWarning]

\* extra_options after the loop body: global_scope and facet_filter were popped
popped_options(extra_options) ==
    [k \in DOMAIN extra_options \ {"global_scope", "facet_filter"} |-> extra_options[k]]

\* facet_options of one terms facet
terms_facet(facet_fieldname, extra_options) ==
    LET global_scope == IF "global_scope" \in DOMAIN extra_options
                        THEN extra_options["global_scope"] ELSE FALSE
    IN  (IF global_scope THEN [global |-> TRUE] ELSE EmptyDict)
        @@ (IF "facet_filter" \in DOMAIN extra_options
            THEN [facet_filter |-> extra_options["facet_filter"]] ELSE EmptyDict)
        @@ [terms |-> popped_options(extra_options)
                          @@ [field |-> facet_fieldname, size |-> FACET_SIZE]]

first_letter(interval) ==
    CASE interval = "year" -> "y" [] interval = "month" -> "m"
      [] interval = "week" -> "w" [] interval = "day" -> "d"
      [] interval = "hour" -> "h" [] interval = "minute" -> "m"

str_lower(gap_by) ==
    CASE gap_by = "Month" -> "month" [] gap_by = "Week" -> "week" [] OTHER -> gap_by

\* A plausible slip: the amount is applied to months and years too.
date_interval_any_unit(v) ==
    LET interval == str_lower(v.gap_by)
        gap_amount == IF "gap_amount" \in DOMAIN v THEN v.gap_amount ELSE 1
    IN  IF gap_amount # 1 THEN ToString(gap_amount) \o first_letter(interval)
        ELSE interval

\* the interval of one date facet
date_interval(v) ==
    LET interval == str_lower(v.gap_by)
        gap_amount == IF "gap_amount" \in DOMAIN v THEN v.gap_amount ELSE 1
    IN  IF gap_amount # 1 /\ interval \notin {"month", "year"}
        THEN ToString(gap_amount) \o first_letter(interval)
        ELSE interval

\* backend._from_python on a date: its ISO text
iso_datetime(d) == [iso |-> d]

date_facet(facet_fieldname, v) ==
    [date_histogram |-> [field |-> facet_fieldname, interval |-> date_interval(v)],
     facet_filter |->
         [range |-> (facet_fieldname :>
                        [from |-> iso_datetime(v.start_date),
                         to |-> iso_datetime(v.end_date)])]]

query_facet(v) == [query |-> [query_string |-> [query |-> v]]]

\* kwargs['facets'] after the three facet loops (later loops overwrite)
facets_kwargs(facets, date_facets, query_facets) ==
    LET f1 == IF facets = None THEN EmptyDict
              ELSE [n \in DOMAIN facets[1] |-> terms_facet(n, facets[1][n])]
        f2 == IF date_facets = None THEN EmptyDict
              ELSE [n \in DOMAIN date_facets[1] |-> date_facet(n, date_facets[1][n])]
        RECURSIVE qf(_)
        qf(k) == IF k = 0 THEN EmptyDict
                 ELSE (query_facets[1][k][1] :> query_facet(query_facets[1][k][2]))
                      @@ qf(k - 1)
        f3 == IF query_facets = None THEN EmptyDict ELSE qf(Len(query_facets[1]))
    IN  f3 @@ f2 @@ f1

\* limit_to_registered_models once its default is resolved: the argument,
\* else settings.HAYSTACK_LIMIT_TO_REGISTERED_MODELS, else True
limit_resolved(limit_to_registered_models, e) ==
    IF limit_to_registered_models # None THEN limit_to_registered_models[1]
    ELSE IF e.HAYSTACK_LIMIT_TO_REGISTERED_MODELS # None
         THEN e.HAYSTACK_LIMIT_TO_REGISTERED_MODELS[1]
         ELSE TRUE

\* A plausible slip: the type codes left in iteration order.
model_choices_unsorted(models_iter, limit_to_registered_models, e) ==
    IF Len(models_iter) > 0 THEN Map(get_model_ct, models_iter)
    ELSE IF limit_resolved(limit_to_registered_models, e) THEN e.build_models_list
    ELSE <<>>

\* models_iter is the explicit models in iteration order (empty for None)
model_choices(models_iter, limit_to_registered_models, e) ==
    IF Len(models_iter) > 0 THEN sorted(Map(get_model_ct, models_iter))
    ELSE IF limit_resolved(limit_to_registered_models, e) THEN e.build_models_list
    ELSE <<>>

narrow_filter(q) ==
    [fquery |-> [query |-> [query_string |-> [query |-> q]], _cache |-> TRUE]]

Min(a, b) == IF a <= b THEN a ELSE b
Max(a, b) == IF a >= b THEN a ELSE b

\* haystack.utils.geo.generate_bounding_box: ((south, west), (north, east))
generate_bounding_box(point_1, point_2) ==
    <<<<Min(point_1.lat, point_2.lat), point_1.lng>>,
      <<Max(point_1.lat, point_2.lat), point_2.lng>>>>

within_filter(within) ==
    LET box == generate_bounding_box(within.point_1, within.point_2)
    IN  [geo_bounding_box |->
            (within.field :>
                [top_left |-> [lat |-> box[2][1], lon |-> box[1][2]],
                 bottom_right |-> [lat |-> box[1][1], lon |-> box[2][2]]])]

\* "%(dist).6f%(unit)s" of a whole number of kilometres
km_text(km) == ToString(km) \o ".000000km"

dwithin_filter(dwithin, e) ==
    LET coords == get_coords(dwithin.point)
        distance == IF e.elasticsearch_1_0 THEN km_text(dwithin.distance_km)
                    ELSE dwithin.distance_km
    IN  [geo_distance |->
            [distance |-> distance]
            @@ (dwithin.field :> [lat |-> coords[2], lon |-> coords[1]])]

\* the filters in the order the code appends them
accumulated_filters(req, e, narrow_iter, models_iter) ==
    LET choices == model_choices(models_iter, req.limit_to_registered_models, e)
    IN  (IF Len(choices) > 0 THEN <<[terms |-> (DJANGO_CT :> choices)]>> ELSE <<>>)
        \o Map(narrow_filter, narrow_iter)
        \o (IF req.within # None THEN <<within_filter(req.within[1])>> ELSE <<>>)
        \o (IF req.dwithin # None THEN <<dwithin_filter(req.dwithin[1], e)>> ELSE <<>>)

\* A plausible slip: a single filter is dropped instead of wrapped.
combined_query_from_two(base, filters) ==
    IF Len(filters) <= 1 THEN base
    ELSE [filtered |-> [query |-> base, filter |-> [bool |-> [must |-> filters]]]]

\* kwargs['query'] once the filters are applied
combined_query(base, filters) ==
    IF Len(filters) = 0 THEN base
    ELSE IF Len(filters) = 1 THEN [filtered |-> [query |-> base, filter |-> filters[1]]]
    ELSE [filtered |-> [query |-> base, filter |-> [bool |-> [must |-> filters]]]]

\* The filter clauses of a compiled document, read back from its 'query'.
FiltersOf(doc) ==
    IF "filtered" \notin DOMAIN doc.query THEN <<>>
    ELSE IF "bool" \in DOMAIN doc.query.filtered.filter
         THEN doc.query.filtered.filter.bool.must
         ELSE <<doc.query.filtered.filter>>

\* The call.  narrow_iter and models_iter are the orders in which this call
\* iterates over the narrow_queries and models sets.  Returns the document,
\* the warnings emitted, and the facets argument as the call leaves it.
build_search_kwargs(req, e, narrow_iter, models_iter) ==
    LET filters == accumulated_filters(req, e, narrow_iter, models_iter)
        has_facets == req.facets # None \/ req.date_facets # None \/ req.query_facets # None
        kwargs ==
            [query |-> combined_query(base_query(req.query_string), filters)]
            @@ (IF Len(req.fields) > 0 THEN [fields |-> Join(req.fields, <<" ">>)]
                ELSE EmptyDict)
            @@ (IF req.sort_by # None
                THEN [sort |-> Map(LAMBDA en : sort_kwargs(en, req.distance_point),
                                   req.sort_by[1])]
                ELSE EmptyDict)
            @@ (IF req.highlight
                THEN [highlight |-> [fields |-> (content_field :> [store |-> "yes"])]]
                ELSE EmptyDict)
            @@ (IF e.include_spelling
                THEN [suggest |-> [suggest |->
                        [text |-> IF req.spelling_query # None THEN req.spelling_query[1]
                                  ELSE req.query_string,
                         term |-> [field |-> "_all"]]]]
                ELSE EmptyDict)
            @@ (IF has_facets
                THEN [facets |-> facets_kwargs(req.facets, req.date_facets, req.query_facets)]
                ELSE EmptyDict)
    IN  [ret |-> kwargs,
         warnings |-> (IF e.haystack_after_2_4_0 THEN <<VersionWarning>> ELSE <<>>)
                      \o sort_warnings(req.sort_by, req.distance_point),
         facets |-> IF req.facets = None THEN None
                    ELSE Some([n \in DOMAIN req.facets[1] |-> popped_options(req.facets[1][n])])]

(***************************************************************************)
(* The requests and environments build_search_kwargs is called with.       *)
(* Each family varies the arguments one part of the function reads and     *)
(* leaves the others at their defaults.                                    *)
(***************************************************************************)
\* The orders in which a loop can iterate over the set S.
Perms(S) == {p \in [1..Cardinality(S) -> S] : \A i, j \in 1..Cardinality(S) :
                                                  p[i] = p[j] => i = j}

DefaultRequest ==
    [query_string |-> MatchAll, sort_by |-> None, fields |-> <<>>, highlight |-> FALSE,
     facets |-> None, date_facets |-> None, query_facets |-> None,
     narrow_queries |-> None, spelling_query |-> None, within |-> None,
     dwithin |-> None, distance_point |-> None, models |-> None,
     limit_to_registered_models |-> None]

DefaultEnv ==
    [HAYSTACK_LIMIT_TO_REGISTERED_MODELS |-> None,
     build_models_list |-> <<"api.organisation", "api.category">>,
     elasticsearch_1_0 |-> TRUE, include_spelling |-> FALSE,
     haystack_after_2_4_0 |-> FALSE]

Options(S) == {None} \cup {Some(x) : x \in S}
QueryStrings == {MatchAll, <<"heart">>}
NarrowQueries == {<<"country:(ZA)">>, <<"categories:(\"1\")">>}
Models == {"Organisation", "Keyword", "Category"}
ModelSets == {{}, {"Organisation"}, {"Organisation", "Keyword"}, {"Keyword", "Category"}}
Point(lat, lng) == [lat |-> lat, lng |-> lng]
Anchor == [field |-> "location", point |-> Point(-33, 18)]
Box == [field |-> "location", point_1 |-> Point(-34, 18), point_2 |-> Point(-33, 19)]
Radius == [field |-> "location", point |-> Point(-33, 18), distance_km |-> 5]
SortEntries == {<<"distance", "asc">>, <<"distance", "desc">>, <<"name", "asc">>}
SortLists == {<<>>} \cup {<<a>> : a \in SortEntries}
                 \cup {<<a, b>> : a \in SortEntries, b \in SortEntries}
FacetOptions ==
    {EmptyDict, [global_scope |-> TRUE], [global_scope |-> FALSE],
     [facet_filter |-> "country:ZA"], [size |-> 500],
     [global_scope |-> TRUE, facet_filter |-> "country:ZA", size |-> 10]}
FacetDicts == {EmptyDict} \cup {("country" :> o) : o \in FacetOptions}
                  \cup {("country" :> o) @@ ("categories" :> EmptyDict) : o \in FacetOptions}
DateFacetValues ==
    {[gap_by |-> g, start_date |-> "d1", end_date |-> "d2"] : g \in {"Month", "week", "year", "day"}}
    \cup {[gap_by |-> g, gap_amount |-> n, start_date |-> "d1", end_date |-> "d2"] :
              g \in {"Month", "week", "year", "day"}, n \in {1, 2, 3}}
DateFacetDicts == {EmptyDict} \cup {("created" :> v) : v \in DateFacetValues}
QueryFacetLists == {<<>>, <<<<"recent", <<"heart">>>>>>,
                    <<<<"recent", <<"heart">>>>, <<"recent", <<"clinic">>>>>>}

\* requests that differ in what accumulates filters
FilterCalls ==
    {[request |-> [DefaultRequest EXCEPT !.query_string = q, !.narrow_queries = n,
                       !.models = m, !.limit_to_registered_models = l,
                       !.within = w, !.dwithin = d],
      env |-> [DefaultEnv EXCEPT !.HAYSTACK_LIMIT_TO_REGISTERED_MODELS = s,
                   !.build_models_list = b, !.elasticsearch_1_0 = v]] :
        q \in QueryStrings, n \in Options(SUBSET NarrowQueries), m \in Options(ModelSets),
        l \in Options(BOOLEAN), w \in Options({Box}), d \in Options({Radius}),
        s \in Options(BOOLEAN),
        b \in {<<>>, <<"api.organisation">>, <<"api.organisation", "api.category">>},
        v \in BOOLEAN}

\* requests that differ in sorting, highlighting and spelling
SortCalls ==
    {[request |-> [DefaultRequest EXCEPT !.query_string = q, !.sort_by = sb,
                       !.distance_point = dp, !.highlight = h, !.spelling_query = sq,
                       !.fields = f],
      env |-> [DefaultEnv EXCEPT !.include_spelling = sp, !.haystack_after_2_4_0 = hv]] :
        q \in QueryStrings, sb \in Options(SortLists), dp \in Options({Anchor}),
        h \in BOOLEAN, sq \in Options({<<"hart">>}), f \in {<<>>, <<<<"name">>, <<"address">>>>},
        sp \in BOOLEAN, hv \in BOOLEAN}

\* requests that differ in facets
FacetCalls ==
    {[request |-> [DefaultRequest EXCEPT !.facets = f, !.date_facets = df,
                       !.query_facets = qf],
      env |-> DefaultEnv] :
        f \in Options(FacetDicts), df \in Options(DateFacetDicts),
        qf \in Options(QueryFacetLists)}

KwInit ==
    /\ \E c \in FilterCalls \cup SortCalls \cup FacetCalls :
           request = c.request /\ env = c.env
    /\ calls = <<>>
    /\ FragIdle /\ FmtIdle /\ ApiIdle

SetOf(opt) == IF opt = None THEN {} ELSE opt[1]

\* One call of build_search_kwargs on the request object; the call pops the
\* facet-level options out of the caller's facets.
BuildSearchKwargs ==
    /\ Len(calls) < MaxCalls
    /\ \E narrow_iter \in Perms(SetOf(request.narrow_queries)),
          models_iter \in Perms(SetOf(request.models)) :
           LET r == build_search_kwargs(request, env, narrow_iter, models_iter)
           IN  /\ calls' = Append(calls, [request |-> request, raised |-> "",
                                          ret |-> r.ret, warnings |-> r.warnings])
               /\ request' = [request EXCEPT !.facets = r.facets]
    /\ UNCHANGED <<env, fragVars, fmtVars, apiVars>>

KwNext == BuildSearchKwargs

KwSpec == KwInit /\ [][KwNext]_vars

(***************************************************************************)
(* SearchSerializer.format_results and                                     *)
(* OrganisationSummarySerializer.to_representation                         *)
(*                                                                         *)
(* A hit is None (a hole the query set yields for a stale index entry) or  *)
(* a search result [object, distance]: object is None when the entity is   *)
(* gone from the database, else Some(id); distance is                      *)
(*   [kind |-> "absent"]  the result has no usable distance attribute,     *)
(*   [kind |-> "none"]    the attribute is None,                           *)
(*   [kind |-> "inf"]     an infinite Distance,                            *)
(*   [kind |-> "finite", ckm |-> n]  a Distance of n hundredths of a km.   *)
(* organisations maps an entity id to its 'distance' attribute: None while *)
(* the attribute is unset, Some(text) once it is set.                      *)
(***************************************************************************)
OrgIds == {1, 2, 3}
Absent == [kind |-> "absent"]
NoneDistance == [kind |-> "none"]
Infinite == [kind |-> "inf"]
Finite(n) == [kind |-> "finite", ckm |-> n]

IsHole(hit) == hit = None

two_digits(n) == IF n < 10 THEN "0" \o ToString(n) ELSE ToString(n)

\* '{0:.2f}km'.format(distance.km) for a distance of ckm hundredths of a km
km_format(ckm) == ToString(ckm \div 100) \o "." \o two_digits(ckm % 100) \o "km"

\* (result.object, result.distance if hasattr(result, 'distance') else None)
hit_tuple(hit) ==
    [organisation |-> hit[1].object,
     distance |-> IF hit[1].distance.kind = "absent" THEN NoneDistance
                  ELSE hit[1].distance]

\* The list comprehension under try/except AttributeError: a hole in the
\* hits raises inside the comprehension, and the list stays [].
organisation_distance_tuples(hits) ==
    IF \E i \in 1..Len(hits) : IsHole(hits[i]) THEN <<>>
    ELSE Map(hit_tuple, hits)

\* A plausible slip: the loop never sets the attribute.
sets_distance_never(t) == FALSE

\* whether the loop sets organisation.distance for this tuple
sets_distance(t) == t.distance.kind = "finite"

\* The call: [called, raised, ret, logged, organisations].
format_results(hits, orgs) ==
    LET tuples == organisation_distance_tuples(hits)
        logged == IF \E i \in 1..Len(hits) : IsHole(hits[i])
                  THEN <<"The ElasticSearch index is likely out of sync with the database.">>
                  ELSE <<>>
        \* the first tuple whose organisation is None and whose distance is set
        Fails(k) == sets_distance(tuples[k]) /\ tuples[k].organisation = None
        failing == {k \in 1..Len(tuples) : Fails(k)}
        stop == IF failing = {} THEN Len(tuples) + 1
                ELSE CHOOSE k \in failing : \A j \in failing : k <= j
        \* the last tuple before stop that sets the attribute of entity id
        Setters(id) == {k \in 1..(stop - 1) :
                           sets_distance(tuples[k]) /\ tuples[k].organisation = Some(id)}
        after == [id \in DOMAIN orgs |->
                     IF Setters(id) = {} THEN orgs[id]
                     ELSE LET k == CHOOSE x \in Setters(id) : \A y \in Setters(id) : y <= x
                          IN  Some(km_format(tuples[k].distance.ckm))]
    IN  IF failing # {}
        THEN [called |-> TRUE, raised |-> "AttributeError", ret |-> <<>>,
              logged |-> logged, organisations |-> after]
        ELSE [called |-> TRUE, raised |-> "",
              ret |-> [k \in 1..Len(tuples) |-> tuples[k].organisation],
              logged |-> logged, organisations |-> after]

\* OrganisationSummarySerializer.to_representation of one instance:
\* [raised, data]; reading instance.id of None raises.
to_representation(instance, orgs) ==
    IF instance = None THEN [raised |-> "AttributeError", data |-> <<>>]
    ELSE [raised |-> "",
          data |-> [id |-> instance[1], distance |-> orgs[instance[1]]]]

Distances == {Absent, NoneDistance, Infinite, Finite(5), Finite(1234)}
Hits == {None} \cup {Some([object |-> o, distance |-> d]) :
                        o \in Options(OrgIds), d \in Distances}
HitLists == UNION {[1..n -> Hits] : n \in 0..MaxHits}

FmtInit ==
    /\ sqs \in HitLists
    /\ organisations = [id \in OrgIds |-> None]
    /\ formatted = NotCalled
    /\ FragIdle /\ KwIdle /\ ApiIdle

FormatResults ==
    /\ ~formatted.called
    /\ LET r == format_results(sqs, organisations)
       IN  /\ formatted' = [called |-> TRUE, raised |-> r.raised, ret |-> r.ret,
                            logged |-> r.logged]
           /\ organisations' = r.organisations
    /\ UNCHANGED <<sqs, fragVars, kwVars, apiVars>>

FmtNext == FormatResults

FmtSpec == FmtInit /\ [][FmtNext]_vars

(***************************************************************************)
(* The Search endpoint: SearchSerializer's validation, perform_search,     *)
(* load_search_results, and Search.get.                                    *)
(*                                                                         *)
(* A query parameter is None when the request does not carry it and        *)
(* Some(text), with text not blank, when it does.                          *)
(***************************************************************************)
LocChars == {"1", ".", ",", "x"}

\* float(text) succeeds: digits with at most one point, over the alphabet
is_float(text) ==
    /\ \A i \in 1..Len(text) : text[i] \in {"1", "."}
    /\ \E i \in 1..Len(text) : text[i] = "1"
    /\ Cardinality({i \in 1..Len(text) : text[i] = "."}) <= 1

Digit(c) == CASE c = "0" -> 0 [] c = "1" -> 1 [] c = "5" -> 5

is_int(text) == Len(text) > 0 /\ \A i \in 1..Len(text) : text[i] \in {"0", "1", "5"}

RECURSIVE int(_)
int(text) == IF Len(text) = 0 THEN 0
             ELSE 10 * int(SubSeq(text, 1, Len(text) - 1)) + Digit(text[Len(text)])

\* The outcome of validating one field.
Valid(v) == [kind |-> "valid", value |-> v]
Invalid(msg) == [kind |-> "invalid", error |-> msg]
Raises(exc) == [kind |-> "raises", exc |-> exc]

\* PointField.to_internal_value: the unpacking of data.split(',') is outside
\* the try, the two float() calls inside it.
PointField_to_internal_value(data) ==
    LET parts == SplitOn(data, ",")
    IN  IF Len(parts) # 2 THEN Raises("ValueError")
        ELSE IF is_float(parts[1]) /\ is_float(parts[2])
             THEN Valid([lat |-> parts[1], lng |-> parts[2]])
             ELSE Invalid("A valid comma separated point field is required.")

\* location = PointField(required=False), of a given non-blank text
location_field(data) == PointField_to_internal_value(data)

\* serializers.IntegerField(required=False)
radius_field(data) ==
    IF is_int(data) THEN Valid(int(data)) ELSE Invalid("A valid integer is required.")

\* serializers.CharField(required=False)
char_field(data) == Valid(data)

\* serializers.CharField(required=False, min_length=2)
country_field(data) ==
    IF Len(data) < 2 THEN Invalid("Ensure this field has at least 2 characters.")
    ELSE Valid(data)

\* serializers.ListField(child=serializers.IntegerField(), required=False)
categories_field(data) ==
    IF \A i \in 1..Len(data) : is_int(data[i]) THEN Valid(Map(int, data))
    ELSE Invalid("A valid integer is required.")

SerializerFields == <<"location", "radius", "place_name", "search_term", "country", "categories">>

run_validation(name, data) ==
    CASE name = "location" -> location_field(data)
      [] name = "radius" -> radius_field(data)
      [] name \in {"place_name", "search_term"} -> char_field(data)
      [] name = "country" -> country_field(data)
      [] name = "categories" -> categories_field(data)

\* SearchSerializer.is_valid(): [raised, errors, validated_data].  The fields
\* are validated in their declared order; a ValidationError is collected per
\* field, any other exception leaves is_valid at once.
is_valid(params) ==
    LET given == {n \in Range(SerializerFields) : params[n] # None}
        outcome == [n \in given |-> run_validation(n, params[n][1])]
        raising == {k \in 1..Len(SerializerFields) :
                       SerializerFields[k] \in given
                       /\ outcome[SerializerFields[k]].kind = "raises"}
    IN  IF raising # {}
        THEN [raised |-> outcome[SerializerFields[CHOOSE k \in raising :
                                     \A j \in raising : k <= j]].exc,
              errors |-> EmptyDict, validated_data |-> EmptyDict]
        ELSE [raised |-> "",
              errors |-> [n \in {m \in given : outcome[m].kind = "invalid"}
                             |-> outcome[n].error],
              validated_data |-> [n \in Range(SerializerFields) |->
                                     IF n \in given /\ outcome[n].kind = "valid"
                                     THEN Some(outcome[n].value) ELSE None]]

\* A plausible slip: a radius alone asks for the distance sort.
perform_search_sorting_on_radius(validated_data) ==
    LET radius == validated_data["radius"]
        country == validated_data["country"]
        location == validated_data["location"]
        categories == validated_data["categories"]
        search_term == validated_data["search_term"]
    IN  [models |-> {"Organisation"},
         custom_query |-> search_term,
         filters |->
             (IF categories # None /\ Len(categories[1]) > 0
              THEN <<[field |-> "categories", filter_type |-> "in", value |-> categories[1]]>>
              ELSE <<>>)
             \o (IF country # None
                 THEN <<[field |-> "country", filter_type |-> "contains", value |-> country[1]]>>
                 ELSE <<>>),
         distance_point |-> IF location # None
                            THEN Some([field |-> "location", point |-> location[1]])
                            ELSE None,
         order_by |-> IF location # None \/ radius # None THEN <<"distance">> ELSE <<>>,
         dwithin |-> IF location # None /\ radius # None /\ radius[1] # 0
                     THEN Some([field |-> "location", point |-> location[1],
                                distance_km |-> radius[1]])
                     ELSE None]

\* A plausible slip: the sort is requested without the call to distance().
perform_search_unanchored(validated_data) ==
    LET radius == validated_data["radius"]
        country == validated_data["country"]
        location == validated_data["location"]
        categories == validated_data["categories"]
        search_term == validated_data["search_term"]
    IN  [models |-> {"Organisation"},
         custom_query |-> search_term,
         filters |->
             (IF categories # None /\ Len(categories[1]) > 0
              THEN <<[field |-> "categories", filter_type |-> "in", value |-> categories[1]]>>
              ELSE <<>>)
             \o (IF country # None
                 THEN <<[field |-> "country", filter_type |-> "contains", value |-> country[1]]>>
                 ELSE <<>>),
         distance_point |-> None,
         order_by |-> IF location # None THEN <<"distance">> ELSE <<>>,
         dwithin |-> IF location # None /\ radius # None /\ radius[1] # 0
                     THEN Some([field |-> "location", point |-> location[1],
                                distance_km |-> radius[1]])
                     ELSE None]

\* SearchSerializer.perform_search on ConfigurableSearchQuerySet().models(Organisation):
\* the query set it returns, as the calls made on it.
perform_search(validated_data) ==
    LET radius == validated_data["radius"]
        country == validated_data["country"]
        location == validated_data["location"]
        categories == validated_data["categories"]
        search_term == validated_data["search_term"]
    IN  [models |-> {"Organisation"},
         custom_query |-> search_term,
         filters |->
             (IF categories # None /\ Len(categories[1]) > 0
              THEN <<[field |-> "categories", filter_type |-> "in", value |-> categories[1]]>>
              ELSE <<>>)
             \o (IF country # None
                 THEN <<[field |-> "country", filter_type |-> "contains", value |-> country[1]]>>
                 ELSE <<>>),
         distance_point |-> IF location # None
                            THEN Some([field |-> "location", point |-> location[1]])
                            ELSE None,
         order_by |-> IF location # None THEN <<"distance">> ELSE <<>>,
         dwithin |-> IF location # None /\ radius # None /\ radius[1] # 0
                     THEN Some([field |-> "location", point |-> location[1],
                                distance_km |-> radius[1]])
                     ELSE None]

\* The query string haystack builds from the filters of a query set: one
\* fragment per filter, joined with AND (parenthesized when several), and
\* '*:*' when there is none.
build_query(filters) ==
    LET as_value(f) ==
            IF f.filter_type = "in"
            THEN [cls |-> "list", str |-> FALSE,
                  data |-> Map(LAMBDA n : <<ToString(n)>>, f.value)]
            ELSE [cls |-> "str", str |-> TRUE, data |-> f.value]
        fragments == Map(LAMBDA f : build_query_fragment(f.field, f.filter_type,
                                                         as_value(f)).ret, filters)
    IN  IF Len(fragments) = 0 THEN MatchAll
        ELSE IF Len(fragments) = 1 THEN fragments[1]
        ELSE <<"(">> \o Join(fragments, <<" ", "A", "N", "D", " ">>) \o <<")">>

\* The arguments haystack passes to build_search_kwargs for a query set.
build_params(sq) ==
    [DefaultRequest EXCEPT
        !.query_string = build_query(sq.filters),
        !.sort_by = IF Len(sq.order_by) = 0 THEN None
                    ELSE Some(Map(LAMBDA o : <<o, "asc">>, sq.order_by)),
        !.distance_point = sq.distance_point,
        !.dwithin = sq.dwithin,
        !.models = Some(sq.models)]

(***************************************************************************)
(* The index and the engine.  The index holds three organisations at       *)
(* increasing distances (in hundredths of a km) from the request's         *)
(* location.  The engine answers a compiled document with the matching     *)
(* organisations: nearest first and with their distance when the document  *)
(* sorts by _geo_distance, cut at the radius when it has a geo_distance    *)
(* filter.                                                                 *)
(***************************************************************************)
Index ==
    <<[id |-> 3, ckm |-> 1570, country |-> <<"K", "E">>, categories |-> {1}, heart |-> FALSE],
      [id |-> 1, ckm |-> 150, country |-> <<"Z", "A">>, categories |-> {1}, heart |-> TRUE],
      [id |-> 2, ckm |-> 980, country |-> <<"Z", "A">>, categories |-> {5}, heart |-> FALSE]>>

\* The index with `extra` further organisations, each farther than the last.
Stored(extra) ==
    Index \o [k \in 1..extra |->
                 [id |-> Len(Index) + k, ckm |-> 2000 + k, country |-> <<"U", "G">>,
                  categories |-> {9}, heart |-> FALSE]]

IndexIds == {Stored(MaxExtra)[k].id : k \in 1..Len(Stored(MaxExtra))}

NearestFirst(docs) == SortSeq(docs, LAMBDA a, b : a.ckm < b.ckm)

\* the hits of a search that the engine answers from the index it holds
engine_hits(sq, kwargs, index) ==
    LET geo_sort == "sort" \in DOMAIN kwargs
                    /\ \E k \in 1..Len(kwargs.sort) : "_geo_distance" \in DOMAIN kwargs.sort[k]
        geo_filter == \E f \in Range(FiltersOf(kwargs)) : "geo_distance" \in DOMAIN f
        Matches(o) ==
            /\ sq.custom_query # None => o.heart
            /\ \A k \in 1..Len(sq.filters) :
                  LET f == sq.filters[k]
                  IN  /\ f.field = "categories" => Range(f.value) \cap o.categories # {}
                      /\ f.field = "country" => f.value = o.country
            /\ geo_filter => o.ckm <= 100 * sq.dwithin[1].distance_km
        found == SelectSeq(index, Matches)
        ordered == IF geo_sort THEN NearestFirst(found) ELSE found
    IN  [k \in 1..Len(ordered) |->
            Some([object |-> Some(ordered[k].id),
                  distance |-> IF geo_sort THEN Finite(ordered[k].ckm) ELSE Absent])]

\* What evaluating the query set yields, by the state of the engine:
\*   "ok"            the hits;
\*   "stale_hole"    the first hit is a hole (its entry is stale);
\*   "stale_object"  the first hit's entity is gone from the database;
\*   "down"          the engine is unreachable: with silently_fail the backend
\*                   logs the error and answers no hits, else it raises.
EngineStates == {"ok", "stale_hole", "stale_object", "down"}

\* An engine: its state and how many organisations its index holds beyond
\* the three of Index.
Engines == {[status |-> st, extra |-> 0] : st \in EngineStates}
               \cup {[status |-> "ok", extra |-> MaxExtra]}

evaluate(sq, kwargs, engine, silently_fail) ==
    LET hits == engine_hits(sq, kwargs, Stored(engine.extra))
    IN  CASE engine.status = "ok" -> [raised |-> "", hits |-> hits]
          [] engine.status = "stale_hole" ->
                [raised |-> "",
                 hits |-> IF Len(hits) = 0 THEN hits ELSE [hits EXCEPT ![1] = None]]
          [] engine.status = "stale_object" ->
                [raised |-> "",
                 hits |-> IF Len(hits) = 0 THEN hits
                          ELSE [hits EXCEPT ![1] = Some([hits[1][1] EXCEPT !.object = None])]]
          [] engine.status = "down" ->
                IF silently_fail THEN [raised |-> "", hits |-> <<>>]
                ELSE [raised |-> "TransportError", hits |-> <<>>]

\* A plausible slip: the slice is not applied.
sliced_unlimited(sq, compiled, limit, engine, silently_fail) ==
    LET answer == evaluate(sq, compiled.ret, engine, silently_fail)
    IN  [raised |-> answer.raised, hits |-> answer.hits,
         kwargs |-> compiled.ret, warnings |-> compiled.warnings]

\* The slice [:limit] of a query set evaluates it: [raised, hits, kwargs, warnings]
\* of the query set sq whose search compiled to `compiled`.
sliced(sq, compiled, limit, engine, silently_fail) ==
    LET answer == evaluate(sq, compiled.ret, engine, silently_fail)
    IN  [raised |-> answer.raised,
         hits |-> SubSeq(answer.hits, 1, Min(Len(answer.hits), limit)),
         kwargs |-> compiled.ret, warnings |-> compiled.warnings]

\* SearchSerializer.load_search_results(sqs, limit=20): perform_search, then
\* the slice.  The free-text custom query travels with the query set, outside
\* the arguments of build_search_kwargs.
load_search_results(validated_data, engine, silently_fail) ==
    sliced(perform_search(validated_data),
           build_search_kwargs(build_params(perform_search(validated_data)),
                               DefaultEnv, <<>>, <<"Organisation">>),
           20, engine, silently_fail)

\* Search.get from the serialization of the formatted results on:
\* OrganisationSummarySerializer(many=True) over format_results' list.
serialized(loaded, f) ==
    LET searched == <<[kwargs |-> loaded.kwargs, warnings |-> loaded.warnings]>>
        rows == Map(LAMBDA inst : to_representation(inst, f.organisations), f.ret)
    IN  IF f.raised # ""
        THEN [raised |-> f.raised, body |-> <<>>, searches |-> searched]
        ELSE IF \E k \in 1..Len(rows) : rows[k].raised # ""
        THEN [raised |-> "AttributeError", body |-> <<>>, searches |-> searched]
        ELSE [raised |-> "", body |-> [data |-> Map(LAMBDA r : r.data, rows)],
              searches |-> searched]

\* Search.get from the loaded search results on.
formatted_response(loaded) ==
    IF loaded.raised # ""
    THEN [raised |-> loaded.raised, body |-> <<>>,
          searches |-> <<[kwargs |-> loaded.kwargs, warnings |-> loaded.warnings]>>]
    ELSE serialized(loaded, format_results(loaded.hits, [id \in IndexIds |-> None]))

\* Search.get from the outcome v of is_valid on.
validated_response(v, engine, silently_fail) ==
    IF v.raised # "" THEN [raised |-> v.raised, body |-> <<>>, searches |-> <<>>]
    ELSE IF DOMAIN v.errors # {}
    THEN [raised |-> "", body |-> [errors |-> v.errors], searches |-> <<>>]
    ELSE formatted_response(load_search_results(v.validated_data, engine, silently_fail))

\* Search.get after the analytics call: [raised, body, searches].
\* body is the serialized result list or the serializer's errors.
Search_get(params, engine, silently_fail) ==
    validated_response(is_valid(params), engine, silently_fail)

\* A plausible slip: the send is not guarded, and its failure leaves the call.
send_ga_tracking_event_unguarded(sent) ==
    IF sent THEN [raised |-> "", logged |-> <<>>]
    ELSE [raised |-> "Exception", logged |-> <<>>]

\* send_ga_tracking_event: [raised, logged]; a failed send is caught by the
\* bare except and logged
send_ga_tracking_event(sent) ==
    IF sent THEN [raised |-> "", logged |-> <<>>]
    ELSE [raised |-> "", logged |-> <<"Google Analytics call failed">>]

LocationTexts == UNION {[1..n -> LocChars] : n \in 1..MaxLocLen}
RadiusTexts == {<<"5">>, <<"1", "0">>, <<"0">>, <<"x">>}

SearchParams ==
    {[location |-> l, radius |-> r, place_name |-> None, search_term |-> t,
      country |-> c, categories |-> g] :
        l \in Options(LocationTexts), r \in Options(RadiusTexts),
        t \in Options({<<"h", "e", "a", "r", "t">>}),
        c \in Options({<<"Z", "A">>, <<"Z">>}),
        g \in Options({<<<<"1">>>>, <<<<"x">>>>})}

ApiInit ==
    /\ query_params \in SearchParams
    /\ response = NotCalled
    /\ searches = <<>>
    /\ ga_log = <<>>
    /\ services = <<>>
    /\ FragIdle /\ KwIdle /\ FmtIdle

\* One GET of the Search endpoint: the analytics call, then the search.  The
\* request finds the analytics service reachable or not (sent), the engine in
\* one of its states, and the backend's SILENTLY_FAIL setting on or off.
SearchGet ==
    /\ ~response.called
    /\ \E sent \in BOOLEAN, engine \in Engines, silently_fail \in BOOLEAN :
       \E ga \in {send_ga_tracking_event(sent)} :
          /\ services' = [sent |-> sent, engine |-> engine, silently_fail |-> silently_fail]
          /\ ga_log' = ga.logged
          /\ IF ga.raised # ""
             THEN /\ response' = [called |-> TRUE, raised |-> ga.raised, body |-> <<>>]
                  /\ searches' = <<>>
             ELSE \E r \in {Search_get(query_params, engine, silently_fail)} :
                     /\ response' = [called |-> TRUE, raised |-> r.raised, body |-> r.body]
                     /\ searches' = r.searches
    /\ UNCHANGED <<query_params, fragVars, kwVars, fmtVars>>

ApiNext == SearchGet

ApiSpec == ApiInit /\ [][ApiNext]_vars

(***************************************************************************)
(* Claims about build_query_fragment, checked under FragSpec.              *)
(***************************************************************************)
Returned == query_frag.called /\ query_frag.raised = ""

\* The text the call was given, as the input type it is treated as.
GivenValue == as_input_type(value)

\* C2 (as claimed): for every non-exact text value of two or more words and
\* every filter in {contains, startswith, fuzzy}, the fragment is the
\* parenthesized ' AND ' join of one term per whitespace-separated word of the
\* (prepared) value, in order, each put through the filter's template.
C2_TermsAreTheWords ==
    (/\ Returned
     /\ filter_type \in TermFilters
     /\ value.str
     /\ post_process(GivenValue)
     /\ input_type_name(GivenValue) # "exact"
     /\ Len(SplitWs(prepare(GivenValue).data)) >= 2)
    => LET words == SplitWs(prepare(GivenValue).data)
           terms == [i \in 1..Len(words) |-> filter_types(filter_type, words[i])]
       IN  query_frag.ret = index_fieldname(field)
                \o <<"(">> \o Join(terms, <<" ", "A", "N", "D", " ">>) \o <<")">>

IsRangeOfTwo == filter_type = "range" /\ value.cls = "list" /\ Len(value.data) = 2

\* C3 (as claimed): 'range' over [a, b] gives ["a" TO "b"] with nothing else
\* around the brackets.
C3_RangeIsBareBrackets ==
    (Returned /\ IsRangeOfTwo)
    => query_frag.ret = index_fieldname(field)
           \o <<"[", "\"">> \o value.data[1] \o <<"\"", " ", "T", "O", " ", "\"">>
           \o value.data[2] \o <<"\"", "]">>

\* C3 (amended): 'range' over [a, b] gives (["a" TO "b"]): the inclusive
\* bracket expression, lower bound first, both bounds quoted, wrapped in one
\* pair of parentheses.
C3_RangeIsWrappedBrackets ==
    (Returned /\ IsRangeOfTwo)
    => query_frag.ret = index_fieldname(field)
           \o <<"(", "[", "\"">> \o value.data[1] \o <<"\"", " ", "T", "O", " ", "\"">>
           \o value.data[2] \o <<"\"", "]", ")">>

C3_Witness ==
    Returned /\ IsRangeOfTwo /\ value.data[1] # value.data[2] /\ field = "name"

RECURSIVE OrOfQuoted(_)
\* "v1" OR "v2" OR ... OR "vn"
OrOfQuoted(vs) ==
    IF Len(vs) = 1 THEN <<"\"">> \o vs[1] \o <<"\"">>
    ELSE <<"\"">> \o vs[1] \o <<"\"", " ", "O", "R", " ">> \o OrOfQuoted(Tail(vs))

IsInOfSome == filter_type = "in" /\ value.cls = "list" /\ Len(value.data) >= 1

\* C4: 'in' over a non-empty list [v1..vn] gives ("v1" OR ... OR "vn"): every
\* element quoted, in the order given, inside exactly one pair of parentheses.
C4_InIsOrOfQuoted ==
    (Returned /\ IsInOfSome)
    => query_frag.ret = index_fieldname(field)
           \o <<"(">> \o OrOfQuoted(value.data) \o <<")">>

C4_Witness ==
    /\ Returned /\ IsInOfSome /\ Len(value.data) >= 2
    /\ value.data[1] # value.data[2]
    /\ value.data[1] = <<"(", ")">>

RECURSIVE Depth(_, _)
\* The nesting depth after the first k characters of s; a parenthesis that
\* follows a backslash is an escaped, literal character.
Depth(s, k) ==
    IF k = 0 THEN 0
    ELSE Depth(s, k - 1)
         + (IF k > 1 /\ s[k - 1] = "\\" THEN 0
            ELSE IF s[k] = "(" THEN 1 ELSE IF s[k] = ")" THEN -1 ELSE 0)

\* s begins with '(' and ends with the ')' that matches it.
FullyParenthesized(s) ==
    /\ Len(s) >= 2 /\ s[1] = "(" /\ s[Len(s)] = ")"
    /\ Depth(s, Len(s)) = 0
    /\ \A k \in 1..(Len(s) - 1) : Depth(s, k) > 0

\* C5 (as claimed): a non-empty fragment of a non-Raw value is wrapped in one
\* pair of parentheses unless it is already fully parenthesized; one that only
\* begins with '(' or only ends with ')' is still wrapped; empty fragments and
\* Raw fragments are never wrapped.
C5_WrappedUnlessFullyParenthesized ==
    Returned
    => LET frag == raw_fragment(filter_type, GivenValue).frag
       IN  query_frag.ret = index_fieldname(field)
               \o (IF Len(frag) > 0 /\ GivenValue.cls # "Raw" /\ ~FullyParenthesized(frag)
                   THEN <<"(">> \o frag \o <<")">>
                   ELSE frag)
\* The value is one word: a non-empty text without whitespace.
IsSingleWord == value.str /\ Len(value.data) > 0
                /\ \A k \in 1..Len(value.data) : value.data[k] \notin Whitespace

\* C14 (as claimed): for a single-word value and 'contains', the fragment
\* after the field prefix is the value itself, with nothing around it, when
\* the input type is 'exact'; otherwise it is the value through the
\* 'contains' template, wrapped in parentheses.
C14_ContainsSingleWord ==
    (Returned /\ filter_type = "contains" /\ IsSingleWord)
    => query_frag.ret = index_fieldname(field)
           \o (IF input_type_name(GivenValue) = "exact" THEN value.data
               ELSE <<"(">> \o filter_types("contains", value.data) \o <<")">>)


(***************************************************************************)
(* Claims about build_search_kwargs, checked under KwSpec.                 *)
(***************************************************************************)
Call(i) == calls[i]
CallIds == 1..Len(calls)

\* Whether the arguments restrict the model types: explicit models, or the
\* registered ones when limiting is on (argument, else setting, else True).
LimitOn(req, e) ==
    \/ req.limit_to_registered_models = Some(TRUE)
    \/ /\ req.limit_to_registered_models = None
       /\ e.HAYSTACK_LIMIT_TO_REGISTERED_MODELS # Some(FALSE)

RestrictsModels(req, e) ==
    \/ SetOf(req.models) # {}
    \/ LimitOn(req, e) /\ e.build_models_list # <<>>

\* The filters a request accumulates, other than the model restriction.
OtherFilters(req, e) ==
    {narrow_filter(q) : q \in SetOf(req.narrow_queries)}
    \cup (IF req.within # None THEN {within_filter(req.within[1])} ELSE {})
    \cup (IF req.dwithin # None THEN {dwithin_filter(req.dwithin[1], e)} ELSE {})

FilterCount(req, e) ==
    (IF RestrictsModels(req, e) THEN 1 ELSE 0) + Cardinality(OtherFilters(req, e))

IsModelFilter(f) == "terms" \in DOMAIN f

\* C1: 'query' is the bare base clause, with no 'filtered' wrapper, exactly
\* when no filter accumulated; with one or more it is
\* {'filtered': {'query': base, 'filter': ...}}; with two or more the filter
\* is {'bool': {'must': F}} where F holds every accumulated filter and
\* nothing else.
C1_FilteredWrapper ==
    \A i \in CallIds :
        LET req == Call(i).request
            doc == Call(i).ret
            n == FilterCount(req, env)
            base == base_query(req.query_string)
        IN  /\ (n = 0) <=> ("filtered" \notin DOMAIN doc.query)
            /\ n = 0 => doc.query = base
            /\ n >= 1 => /\ DOMAIN doc.query = {"filtered"}
                         /\ DOMAIN doc.query.filtered = {"query", "filter"}
                         /\ doc.query.filtered.query = base
            /\ n = 1 => /\ "bool" \notin DOMAIN doc.query.filtered.filter
                        /\ \/ IsModelFilter(doc.query.filtered.filter)
                           \/ doc.query.filtered.filter \in OtherFilters(req, env)
            /\ n >= 2 =>
                 /\ DOMAIN doc.query.filtered.filter = {"bool"}
                 /\ DOMAIN doc.query.filtered.filter.bool = {"must"}
                 /\ LET F == doc.query.filtered.filter.bool.must
                    IN  /\ Len(F) = n
                        /\ {f \in Range(F) : ~IsModelFilter(f)} = OtherFilters(req, env)
                        /\ (\E f \in Range(F) : IsModelFilter(f)) <=> RestrictsModels(req, env)

C1_Witness ==
    \E i \in CallIds :
        /\ FilterCount(Call(i).request, env) >= 3
        /\ Call(i).request.dwithin # None
        /\ Len(FiltersOf(Call(i).ret)) >= 3

\* C6: a ('distance', direction) entry compiled without an anchor point does
\* not raise, emits the warning and becomes the plain sort
\* {'distance': {'order': direction}}; a _geo_distance clause is emitted for
\* an entry only when it is a 'distance' entry and an anchor was supplied.
C6_DistanceSortFallsBack ==
    \A i \in CallIds :
        LET req == Call(i).request
        IN  req.sort_by # None =>
              /\ Call(i).raised = ""
              /\ Len(Call(i).ret.sort) = Len(req.sort_by[1])
              /\ \A k \in 1..Len(req.sort_by[1]) :
                    LET entry == req.sort_by[1][k]
                        clause == Call(i).ret.sort[k]
                    IN  /\ (entry[1] = "distance" /\ req.distance_point = None) =>
                              /\ DistanceWarning \in Range(Call(i).warnings)
                              /\ clause = ("distance" :> [order |-> entry[2]])
                        /\ "_geo_distance" \in DOMAIN clause =>
                              entry[1] = "distance" /\ req.distance_point # None

C6_Witness ==
    \E i \in CallIds :
        /\ Call(i).request.sort_by = Some(<<<<"distance", "asc">>>>)
        /\ Call(i).request.distance_point = None
        /\ Call(i).ret.sort = <<("distance" :> [order |-> "asc"])>>
        /\ Call(i).warnings = <<DistanceWarning>>

\* C9 (as claimed): any two calls on identical requests return identical
\* documents, the order of the clauses of the 'must' list included.
C9_Deterministic ==
    \A i, j \in CallIds :
        Call(i).request = Call(j).request => Call(i).ret = Call(j).ret

StrictlySorted(cts) ==
    \A a, b \in 1..Len(cts) : a < b => CtRank(cts[a]) < CtRank(cts[b])

HasFilter(doc, kind) == \E f \in Range(FiltersOf(doc)) : kind \in DOMAIN f

\* C11 (as claimed): no compiled document holds both a geo_bounding_box
\* filter and a geo_distance filter, whatever within and dwithin are.
C11_GeoFiltersExclusive ==
    \A i \in CallIds :
        ~(HasFilter(Call(i).ret, "geo_bounding_box") /\ HasFilter(Call(i).ret, "geo_distance"))

\* The terms facets of a compiled document, with the options they were given.
TermsFacetsOf(i) ==
    IF Call(i).request.facets = None THEN {}
    ELSE {[options |-> Call(i).request.facets[1][n], facet |-> Call(i).ret.facets[n]] :
              n \in DOMAIN Call(i).request.facets[1]}

\* C12 (as claimed): every terms facet has 'size' at most 100 whatever options
\* the caller gave, and global_scope and facet_filter are set on the facet,
\* not inside 'terms'.
C12_FacetSizeCapped ==
    \A i \in CallIds : \A t \in TermsFacetsOf(i) :
        /\ t.facet.terms.size <= 100
        /\ DOMAIN t.facet.terms \cap {"global_scope", "facet_filter", "global"} = {}
        /\ ("global_scope" \in DOMAIN t.options /\ t.options.global_scope)
              => ("global" \in DOMAIN t.facet /\ t.facet.global = TRUE)
        /\ "facet_filter" \in DOMAIN t.options
              => ("facet_filter" \in DOMAIN t.facet
                  /\ t.facet.facet_filter = t.options.facet_filter)

\* The date facets of a compiled document, with the values they were given.
DateFacetsOf(i) ==
    IF Call(i).request.date_facets = None THEN {}
    ELSE {[value |-> Call(i).request.date_facets[1][n], facet |-> Call(i).ret.facets[n]] :
              n \in DOMAIN Call(i).request.date_facets[1]}

GapAmount(v) == IF "gap_amount" \in DOMAIN v THEN v.gap_amount ELSE 1

\* C13: the interval of a date facet is the lower-cased gap_by alone for
\* month and year (any amount) and for an amount of 1 or none; otherwise it
\* is the amount followed by the first letter of gap_by.
C13_DateFacetInterval ==
    \A i \in CallIds : \A t \in DateFacetsOf(i) :
        LET unit == str_lower(t.value.gap_by)
        IN  t.facet.date_histogram.interval =
                IF unit \in {"month", "year"} \/ GapAmount(t.value) = 1
                THEN unit
                ELSE ToString(GapAmount(t.value)) \o first_letter(unit)

C13_Witness ==
    \E i \in CallIds : \E t \in DateFacetsOf(i) :
        /\ t.value.gap_by = "week" /\ GapAmount(t.value) = 2
        /\ t.facet.date_histogram.interval = "2w"

\* The request object as call i left it: what the next call was handed, or
\* the request as it is now.
LeftBy(i) == IF i < Len(calls) THEN Call(i + 1).request ELSE request

\* The sets the call iterates over have one order only.
OneOrder(req) ==
    Cardinality(SetOf(req.narrow_queries)) <= 1 /\ Cardinality(SetOf(req.models)) <= 1

\* C22 (as claimed): every call of build_search_kwargs leaves the caller's
\* facets mapping, each facet's extra options (global_scope and facet_filter
\* included) and the narrow_queries collection as they were before the call,
\* and a second compilation of the same request object returns the document
\* of the first.
C22_ArgumentsUnchanged ==
    /\ \A i \in CallIds :
          /\ LeftBy(i).facets = Call(i).request.facets
          /\ LeftBy(i).narrow_queries = Call(i).request.narrow_queries
    /\ (Len(calls) = 2 /\ OneOrder(Call(1).request)) => Call(2).ret = Call(1).ret


(***************************************************************************)
(* Claims about format_results, checked under FmtSpec.                     *)
(***************************************************************************)
\* A hit resolves when it is a result whose object is there.
Resolvable(hit) == hit # None /\ hit[1].object # None

\* C7 (as claimed): when some hit cannot be resolved (the hit or its object
\* is missing), format_results does not raise and returns exactly the
\* entities of the resolvable hits, in order.
C7_OrphanedHitsAreSkipped ==
    (formatted.called /\ \E i \in 1..Len(sqs) : ~Resolvable(sqs[i]))
    => /\ formatted.raised = ""
       /\ formatted.ret = Map(LAMBDA h : h[1].object, SelectSeq(sqs, Resolvable))

AllResolvable == \A k \in 1..Len(sqs) : Resolvable(sqs[k])

\* The hits of entity id that carry a distance that is present and finite.
FiniteHitsOf(id) ==
    {k \in 1..Len(sqs) : sqs[k][1].object = Some(id) /\ sqs[k][1].distance.kind = "finite"}

\* C18: format_results sets an entity's distance attribute, to the distance
\* in kilometres with two decimals followed by 'km', exactly when a hit of
\* that entity carries a distance that is present and not infinite (the last
\* such hit counts); otherwise the attribute stays unset and the summary
\* serializes distance as null.
C18_DistanceSetIffFinite ==
    (formatted.called /\ AllResolvable)
    => /\ formatted.raised = ""
       /\ \A id \in OrgIds :
             IF FiniteHitsOf(id) = {}
             THEN /\ organisations[id] = None
                  /\ to_representation(Some(id), organisations).data.distance = None
             ELSE LET last == CHOOSE k \in FiniteHitsOf(id) : \A j \in FiniteHitsOf(id) : j <= k
                      ckm == sqs[last][1].distance.ckm
                  IN  /\ organisations[id] = Some(km_format(ckm))
                      /\ to_representation(Some(id), organisations).data.distance
                             = Some(km_format(ckm))

C18_Witness ==
    /\ formatted.called /\ formatted.raised = ""
    /\ sqs = <<Some([object |-> Some(1), distance |-> Finite(1234)]),
               Some([object |-> Some(2), distance |-> Infinite])>>
    /\ organisations[1] = Some("12.34km")
    /\ organisations[2] = None
    /\ formatted.ret = <<Some(1), Some(2)>>


(***************************************************************************)
(* Claims about the Search endpoint, checked under ApiSpec.                *)
(***************************************************************************)
\* The location parameter is a well-formed 'lat,lon' pair of numbers.
WellFormedLocation(text) ==
    \E k \in 1..Len(text) :
        /\ text[k] = ","
        /\ is_float(SubSeq(text, 1, k - 1))
        /\ is_float(SubSeq(text, k + 1, Len(text)))

Malformed(params) ==
    \/ params.location # None /\ ~WellFormedLocation(params.location[1])
    \/ params.radius # None /\ ~is_int(params.radius[1])

\* C8 (as claimed): for a request whose location is not a well-formed
\* 'lat,lon' pair of numbers or whose radius is not a number, the endpoint
\* does not raise, answers with the per-field error list and performs no
\* search.
C8_MalformedRequestIsRejected ==
    (response.called /\ Malformed(query_params))
    => /\ response.raised = ""
       /\ DOMAIN response.body = {"errors"}
       /\ searches = <<>>

\* The endpoint answered with a result list.
Answered == response.called /\ response.raised = "" /\ DOMAIN response.body = {"data"}

EngineOk == services.engine.status = "ok"

\* the organisations the engine's index holds when the request is served
StoredNow == Stored(services.engine.extra)

ResultIds == [k \in 1..Len(response.body.data) |-> response.body.data[k].id]

Ckm(id) == (CHOOSE o \in Range(Stored(MaxExtra)) : o.id = id).ckm

Farthest == CHOOSE o \in Range(StoredNow) : \A p \in Range(StoredNow) : p.ckm <= o.ckm

Ascending(ids) == \A a, b \in 1..Len(ids) : a < b => Ckm(ids[a]) < Ckm(ids[b])

\* The request carries a well-formed location and nothing else but, maybe, a radius.
LocationOnly ==
    /\ query_params.location # None /\ WellFormedLocation(query_params.location[1])
    /\ query_params.search_term = None /\ query_params.country = None
    /\ query_params.categories = None

\* C15 (as claimed): over an index of organisations at distinct distances
\* (no more than one page of them) and a working engine, a search by location
\* alone returns all of them nearest first, each with a distance string; the
\* same search with a radius smaller than the farthest organisation's
\* distance returns the organisations within the radius nearest first, and
\* not the farthest.
C15_NearestFirstWithinRadius ==
    (/\ response.called /\ EngineOk /\ Len(StoredNow) <= 20 /\ LocationOnly
     /\ query_params.radius # None => is_int(query_params.radius[1]))
    => /\ Answered
       /\ Ascending(ResultIds)
       /\ \A k \in 1..Len(ResultIds) : response.body.data[k].distance # None
       /\ query_params.radius = None
             => Range(ResultIds) = {o.id : o \in Range(StoredNow)}
       /\ (query_params.radius # None /\ 100 * int(query_params.radius[1]) < Farthest.ckm)
             => /\ Farthest.id \notin Range(ResultIds)
                /\ \A o \in Range(StoredNow) :
                      o.ckm <= 100 * int(query_params.radius[1]) => o.id \in Range(ResultIds)

NoParameters == \A n \in DOMAIN query_params : query_params[n] = None

\* C16 (as claimed): a request with no parameters returns one entry for
\* every indexed organisation, however many are stored.
C16_EveryOrganisationReturned ==
    (response.called /\ EngineOk /\ NoParameters)
    => /\ Answered
       /\ Len(ResultIds) = Len(StoredNow)
       /\ Range(ResultIds) = {o.id : o \in Range(StoredNow)}

\* C16 (amended): a request with no parameters returns one entry for each of
\* the first 20 indexed organisations: all of them when no more than 20 are
\* stored, and exactly 20 otherwise.
C16_FirstTwentyReturned ==
    (response.called /\ EngineOk /\ NoParameters)
    => /\ Answered
       /\ Len(ResultIds) = Min(Len(StoredNow), 20)
       /\ \A k \in 1..Len(ResultIds) : ResultIds[k] = StoredNow[k].id

C16_Witness ==
    /\ Answered /\ EngineOk /\ NoParameters
    /\ Len(StoredNow) > 20
    /\ Len(ResultIds) = 20

\* The request passed validation.
Validated ==
    is_valid(query_params).raised = "" /\ DOMAIN is_valid(query_params).errors = {}

\* C17: a validated request with a radius and no location is searched
\* without a geo-distance filter and without a sort, and is answered; a
\* geo-distance filter is compiled only for a request with a location.
C17_RadiusNeedsLocation ==
    response.called
    => /\ (Validated /\ query_params.radius # None /\ query_params.location = None)
             => /\ Len(searches) = 1
                /\ ~HasFilter(searches[1].kwargs, "geo_distance")
                /\ "sort" \notin DOMAIN searches[1].kwargs
                /\ searches[1].warnings = <<>>
                /\ EngineOk => Answered
       /\ \A k \in 1..Len(searches) :
             HasFilter(searches[k].kwargs, "geo_distance") => query_params.location # None

C17_Witness ==
    /\ Answered /\ EngineOk
    /\ query_params.radius = Some(<<"5">>) /\ query_params.location = None
    /\ Len(searches) = 1
    /\ Len(ResultIds) >= 3

\* C19 (as claimed): a search whose engine call failed is never answered
\* with an empty result list.
C19_EngineFailureIsDistinguishable ==
    (response.called /\ services.engine.status = "down" /\ Len(searches) = 1)
    => ~(response.raised = "" /\ response.body = [data |-> <<>>])

\* C20: the analytics call never raises, and the response and the searches
\* made are those of the search alone, whether the analytics send failed
\* (it is then logged) or succeeded.
C20_AnalyticsIsolated ==
    response.called
    => /\ \E r \in {Search_get(query_params, services.engine, services.silently_fail)} :
             /\ response = [called |-> TRUE, raised |-> r.raised, body |-> r.body]
             /\ searches = r.searches
       /\ services.sent => ga_log = <<>>
       /\ ~services.sent => ga_log = <<"Google Analytics call failed">>

C20_Witness ==
    /\ Answered /\ ~services.sent
    /\ ga_log = <<"Google Analytics call failed">>
    /\ Len(ResultIds) >= 1

\* The query set perform_search builds for the request, once validated.
QuerySet == perform_search(is_valid(query_params).validated_data)

ValidatedLocation == is_valid(query_params).validated_data["location"]

\* C21: for every request the endpoint searches for, order_by('distance') is
\* issued exactly when a location was validated and then on a query set that
\* carries the anchor distance('location', location); the compiled document
\* sorts exactly then, by _geo_distance from that anchor, and the compiler
\* never emits its warning about a distance sort without an anchor.
C21_DistanceSortIsAnchored ==
    (response.called /\ Len(searches) = 1)
    => /\ (QuerySet.order_by = <<"distance">>) <=> (ValidatedLocation # None)
       /\ QuerySet.order_by # <<>>
             => QuerySet.distance_point
                    = Some([field |-> "location", point |-> ValidatedLocation[1]])
       /\ ("sort" \in DOMAIN searches[1].kwargs) <=> (ValidatedLocation # None)
       /\ "sort" \in DOMAIN searches[1].kwargs
             => searches[1].kwargs.sort
                    = <<[_geo_distance |->
                           [location |-> get_coords(ValidatedLocation[1]),
                            order |-> "asc", unit |-> "km"]]>>
       /\ DistanceWarning \notin Range(searches[1].warnings)

C21_Witness ==
    /\ Answered /\ EngineOk
    /\ query_params.location = Some(<<"1", ",", "1">>)
    /\ Len(searches) = 1
    /\ "_geo_distance" \in DOMAIN searches[1].kwargs.sort[1]
    /\ searches[1].warnings = <<>>
    /\ Len(ResultIds) >= 1

=============================================================================
